---------------------------- MODULE Spec2Model ----------------------------
(***************************************************************************)
(* Testray triage engine of TestrayAutomatedTasks: the subtask/task        *)
(* reconciliation of testray_helpers.py (prepare_task,                     *)
(* process_task_subtasks, finalize_task_completion) and of                 *)
(* headless_testray.py (analyze_testflow), over a small Testray and Jira   *)
(* world.  Text is a sequence of one-character strings, a CSV issues       *)
(* string is the sequence of its keys, None is the value None.             *)
(***************************************************************************)
EXTENDS Integers, Sequences, FiniteSets, TLC

\* ------------------------------------------------------------------------
\* Bounds of the model
\* ------------------------------------------------------------------------
MaxRuns == 2
MaxFailures == 1
MaxSubtasks == 2
MaxHistory == 5
MaxSimilarHistory == 3
MaxPadding == 17
MaxDatedHistory == 3
MaxErrorLen == 4

None == "None"

Range(s) == {s[i] : i \in DOMAIN s}

\* ------------------------------------------------------------------------
\* Text helpers (utilities.py, testray_helpers.py)
\* ------------------------------------------------------------------------
Digits == {"0", "1", "2", "3", "4", "5", "6", "7", "8", "9"}
HexDigits == Digits \cup {"a", "b", "c", "d", "e", "f", "A", "B", "C", "D", "E", "F"}
Whitespace == {" ", "\t", "\n"}

StartsAt(s, i, w) ==
    /\ i + Len(w) - 1 <= Len(s)
    /\ \A k \in 1..Len(w) : s[i + k - 1] = w[k]

Contains(s, w) == \E i \in 1..(Len(s) + 1) : StartsAt(s, i, w)

\* end of the maximal run of characters of class C starting at i (i - 1 if none)
RECURSIVE RunEnd(_, _, _)
RunEnd(s, i, C) ==
    IF i <= Len(s) /\ s[i] \in C THEN RunEnd(s, i + 1, C) ELSE i - 1

\* ' '.join(error.strip().split())
RECURSIVE CollapseFrom(_, _, _)
CollapseFrom(s, i, out) ==
    IF i > Len(s)
    THEN IF out # <<>> /\ out[Len(out)] = " " THEN SubSeq(out, 1, Len(out) - 1) ELSE out
    ELSE IF s[i] \in Whitespace
         THEN IF out = <<>> \/ out[Len(out)] = " "
              THEN CollapseFrom(s, i + 1, out)
              ELSE CollapseFrom(s, i + 1, Append(out, " "))
         ELSE CollapseFrom(s, i + 1, Append(out, s[i]))

CollapseWhitespace(s) == CollapseFrom(s, 1, <<>>)

\* \d{4}-\d{2}-\d{2}[\sT]\d{2}:\d{2}:\d{2} matches at i
TimestampAt(s, i) ==
    /\ i + 18 <= Len(s)
    /\ \A k \in {0, 1, 2, 3, 5, 6, 8, 9, 11, 12, 14, 15, 17, 18} : s[i + k] \in Digits
    /\ s[i + 4] = "-" /\ s[i + 7] = "-"
    /\ s[i + 10] \in Whitespace \cup {"T"}
    /\ s[i + 13] = ":" /\ s[i + 16] = ":"

RECURSIVE StripTimestamps(_, _, _)
StripTimestamps(s, i, out) ==
    IF i > Len(s) THEN out
    ELSE IF TimestampAt(s, i) THEN StripTimestamps(s, i + 19, out)
         ELSE StripTimestamps(s, i + 1, Append(out, s[i]))

\* 0x[0-9A-Fa-f]+
HexAt(s, i) ==
    /\ i + 2 <= Len(s)
    /\ s[i] = "0" /\ s[i + 1] = "x" /\ s[i + 2] \in HexDigits

RECURSIVE StripAddresses(_, _, _)
StripAddresses(s, i, out) ==
    IF i > Len(s) THEN out
    ELSE IF HexAt(s, i) THEN StripAddresses(s, RunEnd(s, i + 2, HexDigits) + 1, out)
         ELSE StripAddresses(s, i + 1, Append(out, s[i]))

\* the alternation (ms|s|seconds|minutes|m), tried in this order
DurationUnits == << <<"m", "s">>, <<"s">>, <<"s", "e", "c", "o", "n", "d", "s">>,
                    <<"m", "i", "n", "u", "t", "e", "s">>, <<"m">> >>

\* length of the first unit of the alternation that matches at k (0 if none)
UnitLenAt(s, k) ==
    LET hits == {u \in 1..Len(DurationUnits) : StartsAt(s, k, DurationUnits[u])}
    IN  IF hits = {} THEN 0
        ELSE Len(DurationUnits[CHOOSE u \in hits : \A v \in hits : u <= v])

\* \d+\s*(ms|s|seconds|minutes|m) at i: the position after the match, 0 if none
DurationEndAt(s, i) ==
    IF i <= Len(s) /\ s[i] \in Digits
    THEN LET d == RunEnd(s, i, Digits)
             w == RunEnd(s, d + 1, Whitespace)
             n == UnitLenAt(s, w + 1)
         IN  IF n = 0 THEN 0 ELSE w + 1 + n
    ELSE 0

RECURSIVE StripDurations(_, _, _)
StripDurations(s, i, out) ==
    IF i > Len(s) THEN out
    ELSE IF DurationEndAt(s, i) # 0 THEN StripDurations(s, DurationEndAt(s, i), out)
         ELSE StripDurations(s, i + 1, Append(out, s[i]))

\* position of the first double quote at or after i (0 if none)
RECURSIVE NextQuote(_, _)
NextQuote(s, i) ==
    IF i > Len(s) THEN 0
    ELSE IF s[i] = "\"" THEN i
         ELSE IF s[i] = "\n" THEN 0 ELSE NextQuote(s, i + 1)

\* re.sub(r'".*?"', '"..."', error)
RECURSIVE ReplaceQuoted(_, _, _)
ReplaceQuoted(s, i, out) ==
    IF i > Len(s) THEN out
    ELSE IF s[i] = "\"" /\ NextQuote(s, i + 1) # 0
         THEN ReplaceQuoted(s, NextQuote(s, i + 1) + 1, out \o <<"\"", ".", ".", ".", "\"">>)
         ELSE ReplaceQuoted(s, i + 1, Append(out, s[i]))

normalize_error_once(error) ==
    IF error = None \/ error = <<>> THEN <<>>
    ELSE ReplaceQuoted(
           StripDurations(
             StripAddresses(
               StripTimestamps(CollapseWhitespace(error), 1, <<>>), 1, <<>>), 1, <<>>), 1, <<>>)

normalize_error(error) == normalize_error_once(error)

AssertionErrorText == <<"A","s","s","e","r","t","i","o","n","E","r","r","o","r">>

skip_error_keywords == <<
    <<"F","a","i","l","e","d"," ","p","r","i","o","r"," ","t","o"," ","r","u","n","n","i","n","g"," ","t","e","s","t">>,
    <<"P","o","r","t","a","l","L","o","g","A","s","s","e","r","t","o","r","T","e","s","t","#","t","e","s","t","S","c","a","n","X","M","L","L","o","g">>,
    <<"S","k","i","p","p","e","d"," ","t","e","s","t">>,
    <<"T","h","e"," ","b","u","i","l","d"," ","f","a","i","l","e","d"," ","p","r","i","o","r"," ","t","o"," ","r","u","n","n","i","n","g"," ","t","h","e"," ","t","e","s","t">>,
    <<"t","e","s","t","-","p","o","r","t","a","l","-","t","e","s","t","s","u","i","t","e","-","u","p","s","t","r","e","a","m","-","d","o","w","n","s","t","r","e","a","m","(","m","a","s","t","e","r",")"," ","t","i","m","e","d"," ","o","u","t"," ","a","f","t","e","r">>,
    <<"T","E","S","T","_","S","E","T","U","P","_","E","R","R","O","R">>,
    <<"U","n","a","b","l","e"," ","t","o"," ","r","u","n"," ","t","e","s","t"," ","o","n"," ","C","I">> >>

\* a skip test that does not look for AssertionError
SkipOnKeywordOnly(error) ==
    \E k \in 1..Len(skip_error_keywords) : Contains(error, skip_error_keywords[k])

\* should_skip_result on a text (a None argument raises TypeError at the
\* containment test: see SkipRaises)
should_skip_result(error) ==
    IF Contains(error, AssertionErrorText) THEN FALSE
    ELSE \E k \in 1..Len(skip_error_keywords) : Contains(error, skip_error_keywords[k])

SkipRaises(error) == error = None


\* ------------------------------------------------------------------------
\* The bounded world: error texts, cases with their older history, subtasks
\* ------------------------------------------------------------------------
TSkipped == <<"S","k","i","p","p","e","d"," ","t","e","s","t">>
TE5 == <<"E"," ","5","s">>
TE7 == <<"E"," ","7","s">>
TE9 == <<"E"," ","9","s">>
TF == <<"F">>

ErrorTexts == {TSkipped, TE5, TE7, TE9, TF, <<>>}

\* normalize_error and should_skip_result on the texts of the world, computed once
NormTable == [t \in ErrorTexts |-> normalize_error(t)]

Norm(error) == IF error = None THEN normalize_error(None) ELSE NormTable[error]

SkipTable == [t \in ErrorTexts |-> should_skip_result(t)]

Skip(error) == SkipTable[error]

\* (r.get("errors") or "")
OrEmpty(error) == IF error = None THEN <<>> ELSE error

STATUS_FAILED_BLOCKED_TESTFIX == {"FAILED", "TESTFIX", "BLOCKED"}

HistoryEntry(status, error, issues) == [status |-> status, error |-> error, issues |-> issues]

\* older history of each case, newest first (the results of earlier builds)
OldHistory == <<
    <<>>,
    << HistoryEntry("BLOCKED", TE9, <<7, 9>>) >>,
    <<>>,
    << HistoryEntry("FAILED", TF, <<>>), HistoryEntry("FAILED", TF, <<>>),
       HistoryEntry("FAILED", TF, <<>>), HistoryEntry("FAILED", TF, <<>>) >>,
    << HistoryEntry("PASSED", None, <<>>), HistoryEntry("BLOCKED", TE9, <<7>>),
       HistoryEntry("PASSED", None, <<>>), HistoryEntry("FAILED", TE9, <<>>),
       HistoryEntry("PASSED", None, <<>>) >>,
    << HistoryEntry("PASSED", None, <<>>), HistoryEntry("BLOCKED", TE9, <<7>>),
       HistoryEntry("PASSED", None, <<>>), HistoryEntry("FAILED", TE9, <<>>),
       HistoryEntry("PASSED", None, <<>>) >> >>

\* the case type names get_case_type_name returns
CaseTypes == << "Automated Functional Test", "Automated Functional Test",
                "Automated Functional Test", "Automated Functional Test",
                "Automated Functional Test", "Modules Integration Test" >>

CaseIds == 1..Len(OldHistory)

Result(case, errors, issues, status) ==
    [case |-> case, errors |-> errors, issues |-> issues, status |-> status]

Subtask(status, issues) == [status |-> status, issues |-> issues]

\* the subtasks a testflow may hold: the subtask and its case results in
\* fetch order
SubtaskShapes == <<
    [subtask |-> Subtask("OPEN", <<>>),
     results |-> << Result(2, TE5, <<>>, "FAILED"), Result(1, TE7, <<>>, "FAILED") >>],
    [subtask |-> Subtask("OPEN", <<>>),
     results |-> << Result(1, TE5, <<>>, "FAILED"), Result(3, TF, <<>>, "FAILED") >>],
    [subtask |-> Subtask("OPEN", <<>>),
     results |-> << Result(1, TSkipped, <<>>, "FAILED"), Result(3, TF, <<>>, "FAILED") >>],
    [subtask |-> Subtask("OPEN", <<>>),
     results |-> << >>],
    [subtask |-> Subtask("OPEN", <<>>),
     results |-> << Result(1, TE5, <<>>, "FAILED"), Result(3, TE7, <<>>, "FAILED"),
                    Result(4, TF, <<>>, "FAILED") >>],
    [subtask |-> Subtask("OPEN", <<7>>),
     results |-> << Result(3, TF, <<>>, "FAILED") >>],
    [subtask |-> Subtask("COMPLETE", <<>>),
     results |-> << Result(1, TF, <<7>>, "BLOCKED"), Result(3, TF, <<>>, "FAILED") >>],
    [subtask |-> Subtask("COMPLETE", <<7>>),
     results |-> << Result(1, TF, <<7>>, "BLOCKED") >>],
    [subtask |-> Subtask("OPEN", <<>>),
     results |-> << Result(1, TF, <<7>>, "BLOCKED"), Result(3, TE5, <<>>, "FAILED") >>],
    [subtask |-> Subtask("OPEN", <<>>),
     results |-> << Result(5, TE5, <<>>, "FAILED"), Result(4, TF, <<>>, "FAILED") >>],
    [subtask |-> Subtask("OPEN", <<>>),
     results |-> << Result(6, TE5, <<>>, "FAILED"), Result(4, TF, <<>>, "FAILED") >>],
    [subtask |-> Subtask("OPEN", <<>>),
     results |-> << Result(4, TF, <<>>, "FAILED"), Result(6, TE5, <<>>, "FAILED") >>],
    [subtask |-> Subtask("OPEN", <<>>),
     results |-> << Result(3, None, <<>>, "FAILED") >>] >>

\* the shapes the worlds of the pipeline and of analyze_testflow draw from
PipelineShapes == {1, 3, 4, 5, 6, 7, 9}

AnalyzeShapes == {2, 4, 7, 8, 10, 11, 12, 13}

\* a testflow the engine has just created holds open subtasks without issues
FreshShapes(S) == {k \in S : SubtaskShapes[k].subtask = Subtask("OPEN", <<>>)}

\* the testflows of up to MaxSubtasks subtasks, their subtasks in shape order
ShapeSeqs(S) ==
    {q \in UNION {[1..n -> S] : n \in 1..MaxSubtasks} :
        \A i \in 1..(Len(q) - 1) : q[i] <= q[i + 1]}

\* subtask 0 and error <<>>: an issue the engine did not create
JiraIssue(status, labels, subtask, error) ==
    [status |-> status, labels |-> labels, subtask |-> subtask, error |-> error]

\* the tracker before the first run: 7 an open routine task, 8 a closed
\* one, 9 an open issue that is no routine task
InitialJira == (7 :> JiraIssue("Open", {"hl_routine_tasks"}, 0, <<>>))
            @@ (8 :> JiraIssue("Closed", {"hl_routine_tasks"}, 0, <<>>))
            @@ (9 :> JiraIssue("Open", {}, 0, <<>>))

\* the similarity oracle: pairs of distinct normalized errors it judges similar
Oracles == { {}, {{Norm(TE5), Norm(TF)}} }

\* ------------------------------------------------------------------------
\* State
\* ------------------------------------------------------------------------
VARIABLES
    \* Testray
    build,                  \* importStatus key of the latest build
    prevComplete,           \* an earlier build has a COMPLETE task
    tasks,                  \* dueStatus keys of the latest build's tasks
    flow,                   \* the task's testflow (its subtasks) exists
    subtasks,               \* subtask id -> [status, issues]
    results,                \* subtask id -> its case results, in fetch order
    \* Jira and the similarity model
    jira,                   \* issue key -> [status, labels, subtask, error]
    simPairs,               \* the oracle behind are_errors_similar
    entry,                  \* the flow that is run: the pipeline or analyze_testflow
    applied,                \* a function applied on its own: its name and arguments
    returned,               \* <<>> before it returns, <<its value>> after
    \* one run of the engine
    pc, outcome, failedAt, runs, failures,
    task_id, si,
    unique_failures, first_result_skipped, groups, resolved_all_groups,
    ri, all_results_in_subtask_handled,
    batch_updates, subtasks_to_complete, subtask_to_issues,
    bi, ci, to_close,
    \* what the run has done so far
    calls,                  \* the mutating external calls made in this run
    completedNow,           \* subtasks update_subtask_status was called on
    decisions,              \* the resolutions _resolve_unique_failures made
    jiraAtStart,            \* the issue keys Jira held when the run started
    completeAtStart         \* the subtasks that were COMPLETE when the run started

testray == <<build, prevComplete, tasks, flow, subtasks, results>>
control == <<pc, outcome, failedAt, runs, failures>>
scanVars == <<unique_failures, first_result_skipped, groups, resolved_all_groups,
              ri, all_results_in_subtask_handled>>
stageVars == <<batch_updates, subtasks_to_complete, subtask_to_issues>>
finVars == <<bi, ci, to_close>>
atStart == <<jiraAtStart, completeAtStart>>
ghost == <<calls, completedNow, decisions, atStart>>
world == <<simPairs, entry, applied, returned>>
vars == <<testray, jira, world, control, task_id, si, scanVars, stageVars, finVars, ghost>>

Worlds(S) ==
    {[build |-> "DONE", tasks |-> <<"INANALYSIS">>, flow |-> TRUE, shapes |-> q] :
        q \in ShapeSeqs(S)}
    \cup {[build |-> "DONE", tasks |-> <<>>, flow |-> FALSE, shapes |-> q] :
        q \in ShapeSeqs(FreshShapes(S))}
    \cup {[build |-> "DONE", tasks |-> <<"INANALYSIS">>, flow |-> FALSE, shapes |-> <<1>>],
          [build |-> "RUNNING", tasks |-> <<"INANALYSIS">>, flow |-> TRUE, shapes |-> <<1>>],
          [build |-> "RUNNING", tasks |-> <<>>, flow |-> FALSE, shapes |-> <<1>>],
          [build |-> "DONE", tasks |-> <<"ABANDONED">>, flow |-> TRUE, shapes |-> <<1>>],
          [build |-> "DONE", tasks |-> <<"ABANDONED", "INANALYSIS">>, flow |-> TRUE, shapes |-> <<1>>],
          [build |-> "DONE", tasks |-> <<"INANALYSIS">>, flow |-> TRUE, shapes |-> <<8>>],
          [build |-> "DONE", tasks |-> <<"COMPLETE">>, flow |-> TRUE, shapes |-> <<8>>],
          [build |-> "DONE", tasks |-> <<"COMPLETE">>, flow |-> TRUE, shapes |-> <<8, 7>>],
          [build |-> "DONE", tasks |-> <<"COMPLETE">>, flow |-> TRUE, shapes |-> <<1>>],
          [build |-> "DONE", tasks |-> <<>>, flow |-> FALSE, shapes |-> <<10>>]}

NoIssues(n) == [k \in 1..n |-> {}]

InitWith(S, flow_run) ==
    /\ entry = flow_run
    /\ applied = [fn |-> "none"] /\ returned = <<>>
    /\ \E w \in Worlds(S) :
        /\ build = w.build
        /\ tasks = w.tasks
        /\ flow = w.flow
        /\ subtasks = [k \in 1..Len(w.shapes) |-> SubtaskShapes[w.shapes[k]].subtask]
        /\ results = [k \in 1..Len(w.shapes) |-> SubtaskShapes[w.shapes[k]].results]
        /\ subtask_to_issues = NoIssues(Len(w.shapes))
    /\ prevComplete \in BOOLEAN
    /\ simPairs \in Oracles
    /\ jira = InitialJira
    /\ pc = "idle" /\ outcome = "none" /\ failedAt = "none" /\ runs = 0 /\ failures = 0
    /\ task_id = 0 /\ si = 0
    /\ unique_failures = <<>> /\ first_result_skipped = FALSE
    /\ groups = <<>> /\ resolved_all_groups = TRUE
    /\ ri = 0 /\ all_results_in_subtask_handled = TRUE
    /\ batch_updates = <<>> /\ subtasks_to_complete = <<>>
    /\ bi = 0 /\ ci = 0 /\ to_close = {}
    /\ calls = {} /\ completedNow = {} /\ decisions = <<>>
    /\ jiraAtStart = DOMAIN InitialJira
    /\ completeAtStart = {}

InitPipeline == InitWith(PipelineShapes, "pipeline")

InitAnalyze == InitWith(AnalyzeShapes, "analyze")

Init == InitPipeline \/ InitAnalyze

\* ------------------------------------------------------------------------
\* Control: where a step goes, and an external call that raises
\* ------------------------------------------------------------------------
Goto(p) == pc' = p /\ UNCHANGED <<outcome, failedAt, runs, failures>>

End(o) == pc' = "end" /\ outcome' = o /\ UNCHANGED <<failedAt, runs, failures>>

Raise(call) ==
    /\ pc' = "end" /\ outcome' = "exception" /\ failedAt' = call
    /\ failures' = failures + 1
    /\ UNCHANGED runs

\* an exception of the engine's own code
Crash(where) ==
    /\ pc' = "end" /\ outcome' = "exception" /\ failedAt' = where
    /\ UNCHANGED <<runs, failures>>

\* the results of an external call: TRUE it returns, FALSE it raises
Outcomes == IF failures < MaxFailures THEN {TRUE, FALSE} ELSE {TRUE}

Called(call) == calls' = calls \cup {call}

\* ------------------------------------------------------------------------
\* Testray and Jira reads
\* ------------------------------------------------------------------------
get_build_tasks == tasks

get_task_subtasks == IF flow THEN subtasks ELSE <<>>

get_subtask_case_results(subtask_id) == results[subtask_id]

RECURSIVE AllResults(_)
AllResults(k) == IF k = 0 THEN <<>> ELSE AllResults(k - 1) \o results[k]

\* the latest build's results of a case, as entries of its history
CurrentHistory(case_id) ==
    LET mine == SelectSeq(AllResults(Len(results)), LAMBDA r : r.case = case_id)
    IN  [k \in 1..Len(mine) |-> HistoryEntry(mine[k].status, mine[k].errors, mine[k].issues)]

get_case_result_history_for_routine(case_id) ==
    CurrentHistory(case_id) \o OldHistory[case_id]

get_case_result_history_for_routine_not_passed(case_id) ==
    SelectSeq(get_case_result_history_for_routine(case_id),
              LAMBDA h : h.status \in STATUS_FAILED_BLOCKED_TESTFIX)

are_errors_similar(current_norm, history_norm) ==
    current_norm = history_norm \/ {current_norm, history_norm} \in simPairs

\* the keys of one history entry: [open |-> the open ones not seen before,
\* seen |-> the keys looked up so far]; a key Jira does not know raises and
\* is neither
RECURSIVE OpenKeys(_, _, _, _)
OpenKeys(issue_keys, k, seen, open) ==
    IF k > Len(issue_keys) THEN [open |-> open, seen |-> seen]
    ELSE LET key == issue_keys[k]
         IN  IF key \in seen \/ key \notin DOMAIN jira
             THEN OpenKeys(issue_keys, k + 1, seen, open)
             ELSE OpenKeys(issue_keys, k + 1, seen \cup {key},
                           IF jira[key].status # "Closed" THEN Append(open, key) ELSE open)

\* the open issues of the first history entry that has some and whose error
\* is similar (<<>> when there is none)
RECURSIVE SimilarFrom(_, _, _, _)
SimilarFrom(history, k, seen, result_error_norm) ==
    IF k > Len(history) THEN <<>>
    ELSE IF history[k].issues = <<>>
         THEN SimilarFrom(history, k + 1, seen, result_error_norm)
         ELSE LET scan == OpenKeys(history[k].issues, 1, seen, <<>>)
              IN  IF scan.open # <<>>
                     /\ are_errors_similar(result_error_norm, Norm(history[k].error))
                  THEN scan.open
                  ELSE SimilarFrom(history, k + 1, scan.seen, result_error_norm)

\* find_similar_open_issues: the issue keys found (<<>>: found = False)
find_similar_open_issues(case_id, result_error) ==
    SimilarFrom(get_case_result_history_for_routine_not_passed(case_id), 1, {},
                Norm(result_error))

\* find_similar_open_issues over a history that is given
SimilarIn(history, result_error) ==
    SimilarFrom(SelectSeq(history, LAMBDA h : h.status \in STATUS_FAILED_BLOCKED_TESTFIX),
                1, {}, Norm(result_error))

\* ------------------------------------------------------------------------
\* Scanning, grouping and joining helpers
\* ------------------------------------------------------------------------
RECURSIVE SortedSeq(_)
SortedSeq(S) ==
    IF S = {} THEN <<>>
    ELSE LET m == CHOOSE x \in S : \A y \in S : x <= y
         IN  <<m>> \o SortedSeq(S \ {m})

\* a join that keeps one of the issue strings only
_join_one_chunk(issues_iterable) ==
    IF issues_iterable = {} THEN <<>> ELSE CHOOSE chunk \in issues_iterable : TRUE

\* the keys of a set of issue strings, sorted, joined (<<>> for None)
_join_issues(issues_iterable) == SortedSeq(UNION {Range(chunk) : chunk \in issues_iterable})

_collect_result_issue_keys(rs) == UNION {Range(rs[k].issues) : k \in DOMAIN rs}

_collect_issue_keys_from_subtasks(sts) == UNION {Range(sts[k].issues) : k \in DOMAIN sts}

_is_subtask_complete(subtask) == subtask.status = "COMPLETE"

Failure(subtask_id, k, r) ==
    [error |-> OrEmpty(r.errors), case_id |-> r.case, result_id |-> <<subtask_id, k>>]

\* a scan that does not look at the issues a result already carries
RECURSIVE ScanIgnoringIssues(_, _, _, _)
ScanIgnoringIssues(subtask_id, rs, k, out) ==
    IF k > Len(rs) THEN out
    ELSE IF Skip(OrEmpty(rs[k].errors))
         THEN ScanIgnoringIssues(subtask_id, rs, k + 1, out)
         ELSE ScanIgnoringIssues(subtask_id, rs, k + 1,
                                 Append(out, [error |-> OrEmpty(rs[k].errors),
                                              case_id |-> rs[k].case,
                                              result_id |-> <<subtask_id, k>>]))

\* the loop of _scan_unique_failures after the first-result test
RECURSIVE ScanFrom(_, _, _, _)
ScanFrom(subtask_id, rs, k, out) ==
    IF k > Len(rs) THEN out
    ELSE IF rs[k].issues # <<>> \/ Skip(OrEmpty(rs[k].errors))
         THEN ScanFrom(subtask_id, rs, k + 1, out)
         ELSE ScanFrom(subtask_id, rs, k + 1, Append(out, Failure(subtask_id, k, rs[k])))

FirstResultSkipped(rs) == rs # <<>> /\ Skip(OrEmpty(rs[1].errors))

_scan_unique_failures(subtask_id, rs) ==
    IF FirstResultSkipped(rs) THEN ScanFrom(subtask_id, rs, 2, <<>>)
    ELSE ScanFrom(subtask_id, rs, 1, <<>>)

\* groups in the order their keys first appear: <<[key, members]>>
RECURSIVE GroupFrom(_, _, _)
GroupFrom(fs, k, out) ==
    IF k > Len(fs) THEN out
    ELSE LET key == Norm(fs[k].error)
             at == {g \in DOMAIN out : out[g].key = key}
         IN  IF at = {}
             THEN GroupFrom(fs, k + 1, Append(out, [key |-> key, members |-> <<fs[k]>>]))
             ELSE LET g == CHOOSE x \in at : TRUE
                  IN  GroupFrom(fs, k + 1,
                                [out EXCEPT ![g].members = Append(@, fs[k])])

\* a grouping by the raw error text: one group per failure text
RECURSIVE GroupRawFrom(_, _, _)
GroupRawFrom(fs, k, out) ==
    IF k > Len(fs) THEN out
    ELSE LET at == {g \in DOMAIN out : out[g].members[1].error = fs[k].error}
         IN  IF at = {}
             THEN GroupRawFrom(fs, k + 1,
                               Append(out, [key |-> Norm(fs[k].error), members |-> <<fs[k]>>]))
             ELSE LET g == CHOOSE x \in at : TRUE
                  IN  GroupRawFrom(fs, k + 1,
                                   [out EXCEPT ![g].members = Append(@, fs[k])])

_group_failures_by_raw_error(fs) == GroupRawFrom(fs, 1, <<>>)

\* a grouping that forgets the filter by key: every group holds every failure
_group_failures_unfiltered(fs) ==
    [g \in DOMAIN GroupFrom(fs, 1, <<>>) |->
        [key |-> GroupFrom(fs, 1, <<>>)[g].key, members |-> fs]]

_group_failures_by_error(fs) == GroupFrom(fs, 1, <<>>)

\* an update that carries only the first key of the issues found
_first_key_update(result_id, due_status, issues_str) ==
    [id |-> result_id, dueStatus |-> due_status, issues |-> SubSeq(issues_str, 1, 1)]

_blocked_update(result_id, due_status, issues_str) ==
    [id |-> result_id, dueStatus |-> due_status, issues |-> issues_str]

NewIssueKey == (CHOOSE k \in DOMAIN jira : \A j \in DOMAIN jira : j <= k) + 1

\* ------------------------------------------------------------------------
\* Writes to Testray and Jira
\* ------------------------------------------------------------------------
\* update_subtask_status: PUT dueStatus COMPLETE, and issues when given
SubtasksAfterUpdate(subtask_id, issues) ==
    [subtasks EXCEPT ![subtask_id] =
        [status |-> "COMPLETE", issues |-> IF issues # <<>> THEN issues ELSE @.issues]]

\* one PUT of assign_issue_to_case_result_batch
ResultsAfterPut(item) ==
    [results EXCEPT ![item.id[1]][item.id[2]] =
        [@ EXCEPT !.status = item.dueStatus, !.issues = item.issues]]

\* create_jira_task: a new open issue, labelled as a routine task (and with
\* the label given, if any)
JiraAfterCreate(labels, subtask_id, error_key) ==
    jira @@ (NewIssueKey :> JiraIssue("Open", {"hl_routine_tasks"} \cup labels,
                                      subtask_id, error_key))

JiraAfterClose(issue_key) == [jira EXCEPT ![issue_key].status = "Closed"]

\* labels in ('hl_routine_tasks') AND labels not in ('test_fix') AND status = Open
OpenRoutineKeys ==
    {k \in DOMAIN jira : /\ "hl_routine_tasks" \in jira[k].labels
                         /\ "test_fix" \notin jira[k].labels
                         /\ jira[k].status = "Open"}

\* ------------------------------------------------------------------------
\* A run: get_latest_done_build, prepare_task
\* ------------------------------------------------------------------------
ResetRun ==
    /\ task_id' = 0 /\ si' = 0
    /\ unique_failures' = <<>> /\ first_result_skipped' = FALSE
    /\ groups' = <<>> /\ resolved_all_groups' = TRUE
    /\ ri' = 0 /\ all_results_in_subtask_handled' = TRUE
    /\ batch_updates' = <<>> /\ subtasks_to_complete' = <<>>
    /\ subtask_to_issues' = NoIssues(Len(subtasks))
    /\ bi' = 0 /\ ci' = 0 /\ to_close' = {}
    /\ calls' = {} /\ completedNow' = {} /\ decisions' = <<>>
    /\ jiraAtStart' = DOMAIN jira
    /\ completeAtStart' = {s \in DOMAIN subtasks : _is_subtask_complete(subtasks[s])}

GetLatestDoneBuild ==
    /\ pc \in {"idle", "end"}
    /\ runs < MaxRuns
    /\ runs' = runs + 1
    /\ failedAt' = "none"
    /\ IF build # "DONE"
       THEN pc' = "end" /\ outcome' = "build_not_done"
       ELSE pc' = "prepare" /\ outcome' = "running"
    /\ ResetRun
    /\ UNCHANGED <<testray, jira, world, failures>>

\* a create_task that does not look at the tasks the build already has
CreateTaskForAnyBuild ==
    /\ pc = "prepare"
    /\ Called("create_task")
    /\ \E ok \in Outcomes :
        IF ok THEN tasks' = Append(tasks, "INANALYSIS") /\ Goto("testflow")
        ELSE Raise("create_task") /\ UNCHANGED tasks
    /\ UNCHANGED <<build, prevComplete, flow, subtasks, results, jira, world,
                   task_id, si, scanVars, stageVars, finVars, completedNow, decisions, atStart>>

CreateTask ==
    /\ pc = "prepare"
    /\ get_build_tasks = <<>>
    /\ Called("create_task")
    /\ \E ok \in Outcomes :
        IF ok THEN tasks' = <<"INANALYSIS">> /\ Goto("testflow")
        ELSE Raise("create_task") /\ UNCHANGED tasks
    /\ UNCHANGED <<build, prevComplete, flow, subtasks, results, jira, world,
                   task_id, si, scanVars, stageVars, finVars, completedNow, decisions, atStart>>

CreateTestflow ==
    /\ pc = "testflow"
    /\ Called("create_testflow")
    /\ \E ok \in Outcomes :
        IF ok THEN flow' = TRUE /\ task_id' = 1 /\ Goto("autofill")
        ELSE Raise("create_testflow") /\ UNCHANGED <<flow, task_id>>
    /\ UNCHANGED <<build, prevComplete, tasks, subtasks, results, jira, world,
                   si, scanVars, stageVars, finVars, completedNow, decisions, atStart>>

\* prepare_task with an existing task: the first task of the build decides
UseExistingTask ==
    /\ entry = "pipeline"
    /\ pc = "prepare"
    /\ get_build_tasks # <<>>
    /\ IF get_build_tasks[1] = "ABANDONED"
       THEN End("abandoned") /\ UNCHANGED task_id
       ELSE IF get_build_tasks[1] = "COMPLETE"
            THEN End("already_complete") /\ UNCHANGED task_id
            ELSE Goto("autofill") /\ task_id' = 1
    /\ UNCHANGED <<testray, jira, world, si, scanVars, stageVars, finVars, ghost>>

\* maybe_autofill_from_previous, then process_task_subtasks starts
MaybeAutofill ==
    /\ pc = "autofill"
    /\ IF prevComplete
       THEN /\ Called("autofill_build")
            /\ \E ok \in Outcomes :
                IF ok THEN Goto("process") /\ si' = 1
                ELSE Raise("autofill_build") /\ UNCHANGED si
       ELSE Goto("process") /\ si' = 1 /\ UNCHANGED calls
    /\ UNCHANGED <<testray, jira, world, task_id, scanVars, stageVars, finVars,
                   completedNow, decisions, atStart>>

\* ------------------------------------------------------------------------
\* process_task_subtasks
\* ------------------------------------------------------------------------
\* a backfill that does not look at the issues the subtask already has
BackfillAlways(subtask, rs) ==
    _join_issues({rs[k].issues : k \in {j \in DOMAIN rs : rs[j].issues # <<>>}})

\* the issues _backfill_subtask_issues_if_needed writes (<<>>: no write)
BackfillIssues(subtask, rs) ==
    IF subtask.issues # <<>> THEN <<>>
    ELSE _join_issues({rs[k].issues : k \in {j \in DOMAIN rs : rs[j].issues # <<>>}})

\* one iteration of the subtask loop up to the grouping of its failures
ScanSubtask ==
    /\ entry = "pipeline"
    /\ pc = "process"
    /\ si <= Len(get_task_subtasks)
    /\ LET subtask == get_task_subtasks[si]
           rs == get_subtask_case_results(si)
           existing_issue_keys == _collect_result_issue_keys(rs)
           collected == [subtask_to_issues EXCEPT
                           ![si] = @ \cup {<<k>> : k \in existing_issue_keys}]
           backfill == BackfillIssues(subtask, rs)
           found == _scan_unique_failures(si, rs)
       IN
       IF rs = <<>>
       THEN /\ Goto("process") /\ si' = si + 1
            /\ UNCHANGED <<testray, scanVars, stageVars, ghost>>
       ELSE IF _is_subtask_complete(subtask)
       THEN IF backfill = <<>>
            THEN /\ Goto("process") /\ si' = si + 1
                 /\ subtask_to_issues' = collected
                 /\ UNCHANGED <<testray, scanVars, batch_updates, subtasks_to_complete, ghost>>
            ELSE /\ Called("update_subtask_status")
                 /\ subtask_to_issues' = collected
                 /\ \E ok \in Outcomes :
                     IF ok
                     THEN /\ subtasks' = SubtasksAfterUpdate(si, backfill)
                          /\ completedNow' = completedNow \cup {si}
                          /\ Goto("process") /\ si' = si + 1
                     ELSE Raise("update_subtask_status")
                          /\ UNCHANGED <<subtasks, completedNow, si>>
                 /\ UNCHANGED <<build, prevComplete, tasks, flow, results, scanVars,
                                batch_updates, subtasks_to_complete, decisions, atStart>>
       ELSE IF FirstResultSkipped(rs)
       THEN /\ Called("update_subtask_status")
            /\ subtask_to_issues' = collected
            /\ \E ok \in Outcomes :
                IF ok
                THEN /\ subtasks' = SubtasksAfterUpdate(si, <<>>)
                     /\ completedNow' = completedNow \cup {si}
                     /\ unique_failures' = found
                     /\ first_result_skipped' = TRUE
                     /\ groups' = _group_failures_by_error(found)
                     /\ resolved_all_groups' = TRUE
                     /\ Goto("resolve")
                ELSE Raise("update_subtask_status")
                     /\ UNCHANGED <<subtasks, completedNow, unique_failures,
                                    first_result_skipped, groups, resolved_all_groups>>
            /\ UNCHANGED <<build, prevComplete, tasks, flow, results, si, ri,
                           all_results_in_subtask_handled,
                           batch_updates, subtasks_to_complete, decisions, atStart>>
       ELSE /\ subtask_to_issues' = collected
            /\ unique_failures' = found
            /\ first_result_skipped' = FALSE
            /\ groups' = _group_failures_by_error(found)
            /\ resolved_all_groups' = TRUE
            /\ Goto("resolve")
            /\ UNCHANGED <<testray, si, ri, all_results_in_subtask_handled,
                           batch_updates, subtasks_to_complete, ghost>>
    /\ UNCHANGED <<jira, world, task_id, finVars>>

\* _resolve_unique_failures for the next group of the subtask
ResolveGroup ==
    /\ pc = "resolve"
    /\ groups # <<>>
    /\ LET group == Head(groups).members
           probe == group[1]
           similar == find_similar_open_issues(probe.case_id, probe.error)
           Updates(issues_str) ==
               [k \in 1..Len(group) |->
                   _blocked_update(group[k].result_id, "BLOCKED", issues_str)]
           Decision(issues_str, created) ==
               [subtask |-> si, key |-> Head(groups).key, issues |-> issues_str,
                created |-> created,
                results |-> {group[k].result_id : k \in 1..Len(group)}]
       IN
       IF similar # <<>>
       THEN /\ batch_updates' = batch_updates \o Updates(similar)
            /\ subtask_to_issues' = [subtask_to_issues EXCEPT ![si] = @ \cup {similar}]
            /\ decisions' = Append(decisions, Decision(similar, FALSE))
            /\ groups' = Tail(groups)
            /\ Goto("resolve")
            /\ UNCHANGED <<jira, calls>>
       ELSE /\ Called("create_jira_task")
            /\ \E ok \in Outcomes :
                IF ok
                THEN /\ jira' = JiraAfterCreate({}, si, Head(groups).key)
                     /\ batch_updates' = batch_updates \o Updates(<<NewIssueKey>>)
                     /\ subtask_to_issues' =
                            [subtask_to_issues EXCEPT ![si] = @ \cup {<<NewIssueKey>>}]
                     /\ decisions' = Append(decisions, Decision(<<NewIssueKey>>, TRUE))
                     /\ groups' = Tail(groups)
                     /\ Goto("resolve")
                ELSE Raise("create_jira_task")
                     /\ UNCHANGED <<jira, batch_updates, subtask_to_issues, decisions, groups>>
    /\ UNCHANGED <<testray, world, task_id, si, unique_failures, first_result_skipped,
                   resolved_all_groups, ri, all_results_in_subtask_handled,
                   subtasks_to_complete, finVars, completedNow, atStart>>

\* the subtask's groups are resolved: stage it for completion if all is handled
StageSubtask ==
    /\ pc = "resolve"
    /\ groups = <<>>
    /\ LET no_unique_failures == Len(unique_failures) = 0
           all_handled == first_result_skipped \/ no_unique_failures \/ resolved_all_groups
       IN  subtasks_to_complete' =
               IF all_handled THEN Append(subtasks_to_complete, si) ELSE subtasks_to_complete
    /\ si' = si + 1
    /\ Goto("process")
    /\ UNCHANGED <<testray, jira, world, task_id, scanVars, batch_updates,
                   subtask_to_issues, finVars, ghost>>

\* process_task_subtasks returns and finalize_task_completion starts
ProcessReturn ==
    /\ pc = "process"
    /\ si > Len(get_task_subtasks)
    /\ bi' = 1 /\ ci' = 1
    /\ Goto("apply")
    /\ UNCHANGED <<testray, jira, world, task_id, si, scanVars, stageVars, to_close, ghost>>

\* ------------------------------------------------------------------------
\* finalize_task_completion
\* ------------------------------------------------------------------------
\* assign_issue_to_case_result_batch: one PUT per item, in order
ApplyBatchItem ==
    /\ pc = "apply"
    /\ IF bi > Len(batch_updates)
       THEN Goto("complete") /\ UNCHANGED <<results, bi, calls>>
       ELSE /\ Called("assign_issue_to_case_result")
            /\ \E ok \in Outcomes :
                IF ok
                THEN /\ results' = ResultsAfterPut(batch_updates[bi])
                     /\ bi' = bi + 1
                     /\ Goto("apply")
                ELSE Raise("assign_issue_to_case_result") /\ UNCHANGED <<results, bi>>
    /\ UNCHANGED <<build, prevComplete, tasks, flow, subtasks, jira, world, task_id, si,
                   scanVars, stageVars, ci, to_close, completedNow, decisions, atStart>>

\* mark the next staged subtask COMPLETE with its joined issues
CompleteSubtask ==
    /\ entry = "pipeline"
    /\ pc = "complete"
    /\ IF ci > Len(subtasks_to_complete)
       THEN Goto("check") /\ UNCHANGED <<subtasks, ci, calls, completedNow>>
       ELSE LET subtask_id == subtasks_to_complete[ci]
                issues_to_add == _join_issues(subtask_to_issues[subtask_id])
            IN  /\ Called("update_subtask_status")
                /\ \E ok \in Outcomes :
                    IF ok
                    THEN /\ subtasks' = SubtasksAfterUpdate(subtask_id, issues_to_add)
                         /\ completedNow' = completedNow \cup {subtask_id}
                         /\ ci' = ci + 1
                         /\ Goto("complete")
                    ELSE Raise("update_subtask_status")
                         /\ UNCHANGED <<subtasks, ci, completedNow>>
    /\ UNCHANGED <<build, prevComplete, tasks, flow, results, jira, world, task_id, si,
                   scanVars, stageVars, bi, to_close, decisions, atStart>>

\* a completion test that is satisfied by one COMPLETE subtask
AnySubtaskComplete(sts) == \E k \in DOMAIN sts : sts[k].status = "COMPLETE"

AllSubtasksComplete(sts) == \A k \in DOMAIN sts : sts[k].status = "COMPLETE"

\* a stale set that does not look at the issues of the subtasks
AllOpenRoutineKeys(sts) == OpenRoutineKeys

\* the stale issues: open routine tasks no subtask refers to
StaleKeys(sts) == OpenRoutineKeys \ _collect_issue_keys_from_subtasks(sts)

\* re-fetch the subtasks; when all are COMPLETE find the stale issues
CheckAllComplete ==
    /\ entry = "pipeline"
    /\ pc = "check"
    /\ IF ~AllSubtasksComplete(get_task_subtasks)
       THEN End("in_analysis") /\ UNCHANGED to_close
       ELSE Goto("close") /\ to_close' = StaleKeys(get_task_subtasks)
    /\ UNCHANGED <<testray, jira, world, task_id, si, scanVars, stageVars, bi, ci, ghost>>

\* close_issue for one stale issue (a set is walked in any order)
CloseStaleIssue ==
    /\ pc = "close"
    /\ to_close # {}
    /\ Called("close_issue")
    /\ \E issue_key \in to_close, ok \in Outcomes :
        IF ok
        THEN /\ jira' = JiraAfterClose(issue_key)
             /\ to_close' = to_close \ {issue_key}
             /\ Goto("close")
        ELSE Raise("close_issue") /\ UNCHANGED <<jira, to_close>>
    /\ UNCHANGED <<testray, world, task_id, si, scanVars, stageVars, bi, ci,
                   completedNow, decisions, atStart>>

CompleteTask ==
    /\ pc = "close"
    /\ to_close = {}
    /\ Called("complete_task")
    /\ \E ok \in Outcomes :
        IF ok
        THEN tasks' = [tasks EXCEPT ![task_id] = "COMPLETE"] /\ End("task_completed")
        ELSE Raise("complete_task") /\ UNCHANGED tasks
    /\ UNCHANGED <<build, prevComplete, flow, subtasks, results, jira, world, task_id, si,
                   scanVars, stageVars, finVars, completedNow, decisions, atStart>>

\* ------------------------------------------------------------------------
\* The pipeline prepare_task -> process_task_subtasks -> finalize_task_completion
\* ------------------------------------------------------------------------
NextPipeline ==
    \/ GetLatestDoneBuild
    \/ CreateTask
    \/ CreateTestflow
    \/ UseExistingTask
    \/ MaybeAutofill
    \/ ScanSubtask
    \/ ResolveGroup
    \/ StageSubtask
    \/ ProcessReturn
    \/ ApplyBatchItem
    \/ CompleteSubtask
    \/ CheckAllComplete
    \/ CloseStaleIssue
    \/ CompleteTask

SpecPipeline == InitPipeline /\ [][NextPipeline]_vars

\* ------------------------------------------------------------------------
\* analyze_testflow: find_or_create_task and the early completion check
\* ------------------------------------------------------------------------
\* find_or_create_task with an existing task, then the status test of
\* analyze_testflow
FindExistingTask ==
    /\ entry = "analyze"
    /\ pc = "prepare"
    /\ get_build_tasks # <<>>
    /\ IF get_build_tasks[1] = "ABANDONED"
       THEN End("abandoned") /\ UNCHANGED <<task_id, to_close>>
       ELSE IF AllSubtasksComplete(get_task_subtasks)
            THEN Goto("find_close") /\ task_id' = 1
                 /\ to_close' = StaleKeys(get_task_subtasks)
            ELSE IF get_build_tasks[1] = "COMPLETE"
                 THEN End("already_complete") /\ task_id' = 1 /\ UNCHANGED to_close
                 ELSE Goto("autofill") /\ task_id' = 1 /\ UNCHANGED to_close
    /\ UNCHANGED <<testray, jira, world, si, scanVars, stageVars, bi, ci, ghost>>

\* check_and_complete_task_if_all_subtasks_done: close_issue for one issue
\* that is open in Jira and on no subtask
CloseNotReproduced ==
    /\ pc \in {"find_close", "final_close"}
    /\ to_close # {}
    /\ Called("close_issue")
    /\ \E issue_key \in to_close, ok \in Outcomes :
        IF ok
        THEN /\ jira' = JiraAfterClose(issue_key)
             /\ to_close' = to_close \ {issue_key}
             /\ Goto(pc)
        ELSE Raise("close_issue") /\ UNCHANGED <<jira, to_close>>
    /\ UNCHANGED <<testray, world, task_id, si, scanVars, stageVars, bi, ci,
                   completedNow, decisions, atStart>>

\* check_and_complete_task_if_all_subtasks_done: complete_task; the run
\* ends (inside find_or_create_task: no valid task is returned)
CompleteTaskIfAllDone ==
    /\ pc \in {"find_close", "final_close"}
    /\ to_close = {}
    /\ Called("complete_task")
    /\ \E ok \in Outcomes :
        IF ok
        THEN /\ tasks' = [tasks EXCEPT ![task_id] = "COMPLETE"]
             /\ End(IF pc = "find_close" /\ tasks[task_id] = "COMPLETE"
                    THEN "already_complete" ELSE "task_completed")
        ELSE Raise("complete_task") /\ UNCHANGED tasks
    /\ UNCHANGED <<build, prevComplete, flow, subtasks, results, jira, world, task_id, si,
                   scanVars, stageVars, finVars, completedNow, decisions, atStart>>

\* ------------------------------------------------------------------------
\* analyze_testflow: the subtask loop
\* ------------------------------------------------------------------------
\* a case type test that takes no case for a Modules Integration Test
NoModuleIntegrationTest(c_id) == FALSE

is_module_integration_test(c_id) == CaseTypes[c_id] = "Modules Integration Test"

\* a decision that leaves the flakiness score (the status switches) out
FlakinessWithoutScore(history, current_error_norm) ==
    LET fails == {k \in DOMAIN history : history[k].status \in STATUS_FAILED_BLOCKED_TESTFIX}
        fail_count == Cardinality(fails)
        pass_count == Cardinality({k \in DOMAIN history : history[k].status = "PASSED"})
        similar_error_failures ==
            Cardinality({k \in fails :
                            are_errors_similar(current_error_norm, Norm(history[k].error))})
        total == pass_count + fail_count
    IN  IF history = <<>> THEN "(False, 'no_history')"
        ELSE IF total < 5 THEN "(False, 'insufficient_data')"
        ELSE IF fail_count = 0 THEN "ZeroDivisionError"
        ELSE IF /\ 5 * total < fail_count * 100
                /\ fail_count * 100 < 75 * total
                /\ similar_error_failures * 10 >= 9 * fail_count
             THEN "True" ELSE "False"

\* what detect_flakiness returns (or the exception it raises), over the
\* history of the case; the ratios are compared without dividing
FlakinessOf(history, current_error_norm) ==
    LET fails == {k \in DOMAIN history : history[k].status \in STATUS_FAILED_BLOCKED_TESTFIX}
        fail_count == Cardinality(fails)
        pass_count == Cardinality({k \in DOMAIN history : history[k].status = "PASSED"})
        switch_count == Cardinality({k \in 2..Len(history) :
                                        history[k - 1].status # history[k].status})
        similar_error_failures ==
            Cardinality({k \in fails :
                            are_errors_similar(current_error_norm, Norm(history[k].error))})
        total == pass_count + fail_count
    IN  IF history = <<>> THEN "(False, 'no_history')"
        ELSE IF total < 5 THEN "(False, 'insufficient_data')"
        ELSE IF fail_count = 0 THEN "ZeroDivisionError"
        ELSE IF /\ switch_count * 100 > 12 * (total - 1)
                /\ 5 * total < fail_count * 100
                /\ fail_count * 100 < 75 * total
                /\ similar_error_failures * 10 >= 9 * fail_count
             THEN "True" ELSE "False"

detect_flakiness(case_id, current_error_norm) ==
    FlakinessOf(get_case_result_history_for_routine(case_id), current_error_norm)

\* `if is_flaky:` a non-empty tuple is true
Truthy(value) == value \in {"True", "(False, 'no_history')", "(False, 'insufficient_data')"}

\* ", ".join over a set of issue strings: the set is walked in any order
RECURSIVE JoinedInAnyOrder(_)
JoinedInAnyOrder(chunks) ==
    IF chunks = {} THEN {<<>>}
    ELSE UNION {{c \o rest : rest \in JoinedInAnyOrder(chunks \ {c})} : c \in chunks}

\* an update of a flaky result that blocks it like a unique failure
flaky_update_as_blocked(result_id, issues_str) ==
    [id |-> result_id, dueStatus |-> "BLOCKED", issues |-> issues_str]

\* the update handle_flaky_result returns for the issues reused or created
handle_flaky_result(result_id, issues_str) ==
    [id |-> result_id, dueStatus |-> "TESTFIX", issues |-> issues_str]

\* one iteration of the subtask loop up to its first result
BeginSubtask ==
    /\ entry = "analyze"
    /\ pc = "process"
    /\ si <= Len(get_task_subtasks)
    /\ LET subtask == get_task_subtasks[si]
           summary_results == get_subtask_case_results(si)
           issues_in_subtask == {summary_results[k].issues :
                                    k \in {j \in DOMAIN summary_results :
                                              summary_results[j].issues # <<>>}}
       IN
       IF summary_results = <<>>
          \/ (subtask.status = "COMPLETE"
                /\ (subtask.issues # <<>> \/ issues_in_subtask = {}))
       THEN /\ Goto("process") /\ si' = si + 1
            /\ UNCHANGED <<testray, scanVars, ghost>>
       ELSE IF subtask.status = "COMPLETE"
       THEN /\ Called("update_subtask_status")
            /\ \E issues_to_add \in JoinedInAnyOrder(issues_in_subtask), ok \in Outcomes :
                IF ok
                THEN /\ subtasks' = SubtasksAfterUpdate(si, issues_to_add)
                     /\ completedNow' = completedNow \cup {si}
                     /\ Goto("process") /\ si' = si + 1
                ELSE Raise("update_subtask_status")
                     /\ UNCHANGED <<subtasks, completedNow, si>>
            /\ UNCHANGED <<build, prevComplete, tasks, flow, results, scanVars,
                           decisions, atStart>>
       ELSE /\ all_results_in_subtask_handled' = TRUE
            /\ ri' = 1
            /\ unique_failures' = <<>>
            /\ Goto("summary")
            /\ UNCHANGED <<testray, si, first_result_skipped, groups, resolved_all_groups,
                           ghost>>
    /\ UNCHANGED <<jira, world, task_id, stageVars, finVars>>

\* process_summary_result on the next result of the subtask, and what the
\* loop of analyze_testflow does with its answer
ProcessSummaryResult ==
    /\ pc = "summary"
    /\ ri <= Len(get_subtask_case_results(si))
    /\ LET summary_result == get_subtask_case_results(si)[ri]
           error == OrEmpty(summary_result.errors)
           case_id == summary_result.case
           result_error == summary_result.errors
           first_result == ri = 1
           is_flaky == IF is_module_integration_test(case_id) THEN "False"
                       ELSE detect_flakiness(case_id, Norm(result_error))
           similar_open_issues == find_similar_open_issues(case_id, result_error)
           Handled == /\ ri' = ri + 1 /\ Goto("summary")
                      /\ UNCHANGED <<all_results_in_subtask_handled, unique_failures>>
           Stopped == UNCHANGED <<ri, all_results_in_subtask_handled, unique_failures>>
       IN
       IF Skip(error) \/ (~(first_result /\ SkipRaises(result_error))
                            /\ summary_result.issues # <<>>)
       THEN Handled /\ UNCHANGED <<jira, batch_updates, calls>>
       ELSE IF first_result /\ SkipRaises(result_error)
       THEN Crash("should_skip_result") /\ Stopped /\ UNCHANGED <<jira, batch_updates, calls>>
       ELSE IF is_flaky = "ZeroDivisionError"
       THEN Crash("detect_flakiness") /\ Stopped /\ UNCHANGED <<jira, batch_updates, calls>>
       ELSE IF Truthy(is_flaky) /\ similar_open_issues # <<>>
       THEN /\ batch_updates' = Append(batch_updates,
                                  handle_flaky_result(<<si, ri>>, similar_open_issues))
            /\ Handled /\ UNCHANGED <<jira, calls>>
       ELSE IF Truthy(is_flaky) /\ result_error = None
       THEN Crash("create_testfix_task_for_subtask") /\ Stopped
            /\ UNCHANGED <<jira, batch_updates, calls>>
       ELSE IF Truthy(is_flaky)
       THEN /\ Called("create_jira_task")
            /\ \E ok \in Outcomes :
                IF ok
                THEN /\ jira' = JiraAfterCreate({"test_fix"}, si, Norm(result_error))
                     /\ batch_updates' = Append(batch_updates,
                                  handle_flaky_result(<<si, ri>>, <<NewIssueKey>>))
                     /\ Handled
                ELSE Raise("create_jira_task") /\ Stopped /\ UNCHANGED <<jira, batch_updates>>
       ELSE /\ all_results_in_subtask_handled' = FALSE
            /\ unique_failures' = Append(unique_failures,
                                     [error |-> result_error, case_id |-> case_id,
                                      result_id |-> <<si, ri>>])
            /\ ri' = ri + 1 /\ Goto("summary")
            /\ UNCHANGED <<jira, batch_updates, calls>>
    /\ UNCHANGED <<testray, world, task_id, si, first_result_skipped, groups,
                   resolved_all_groups, subtasks_to_complete, subtask_to_issues, finVars,
                   completedNow, decisions, atStart>>

\* the results of the subtask are classified: resolve its unique failures
\* with one lookup by the first of them, and stage the subtask
ResolveSubtaskFailures ==
    /\ pc = "summary"
    /\ ri > Len(get_subtask_case_results(si))
    /\ LET probe == unique_failures[1]
           similar == find_similar_open_issues(probe.case_id, probe.error)
           Updates(issues_str) ==
               [k \in 1..Len(unique_failures) |->
                   _blocked_update(unique_failures[k].result_id, "BLOCKED", issues_str)]
           Decision(issues_str, created) ==
               [subtask |-> si, key |-> Norm(probe.error), issues |-> issues_str,
                created |-> created,
                results |-> {unique_failures[k].result_id : k \in 1..Len(unique_failures)}]
           Resolved(issues_str, created) ==
               /\ batch_updates' = batch_updates \o Updates(issues_str)
               /\ subtask_to_issues' = [subtask_to_issues EXCEPT ![si] = @ \cup {issues_str}]
               /\ subtasks_to_complete' = Append(subtasks_to_complete, si)
               /\ decisions' = Append(decisions, Decision(issues_str, created))
               /\ si' = si + 1 /\ Goto("process")
           Stopped == UNCHANGED <<stageVars, decisions, si>>
       IN
       IF unique_failures = <<>>
       THEN /\ subtasks_to_complete' =
                   IF all_results_in_subtask_handled
                   THEN Append(subtasks_to_complete, si) ELSE subtasks_to_complete
            /\ si' = si + 1 /\ Goto("process")
            /\ UNCHANGED <<jira, batch_updates, subtask_to_issues, calls, decisions>>
       ELSE IF similar # <<>>
       THEN Resolved(similar, FALSE) /\ UNCHANGED <<jira, calls>>
       ELSE IF probe.error = None
       THEN Crash("create_investigation_task_for_subtask") /\ Stopped
            /\ UNCHANGED <<jira, calls>>
       ELSE /\ Called("create_jira_task")
            /\ \E ok \in Outcomes :
                IF ok
                THEN /\ jira' = JiraAfterCreate({}, si, Norm(probe.error))
                     /\ Resolved(<<NewIssueKey>>, TRUE)
                ELSE Raise("create_jira_task") /\ Stopped /\ UNCHANGED jira
    /\ UNCHANGED <<testray, world, task_id, scanVars, finVars, completedNow, atStart>>

\* mark the next staged subtask COMPLETE with the issues collected for it
CompleteStagedSubtask ==
    /\ entry = "analyze"
    /\ pc = "complete"
    /\ IF ci > Len(subtasks_to_complete)
       THEN Goto("check") /\ UNCHANGED <<subtasks, ci, calls, completedNow>>
       ELSE LET subtask_id == subtasks_to_complete[ci]
            IN  /\ Called("update_subtask_status")
                /\ \E issues_to_add \in JoinedInAnyOrder(subtask_to_issues[subtask_id]),
                      ok \in Outcomes :
                    IF ok
                    THEN /\ subtasks' = SubtasksAfterUpdate(subtask_id, issues_to_add)
                         /\ completedNow' = completedNow \cup {subtask_id}
                         /\ ci' = ci + 1
                         /\ Goto("complete")
                    ELSE Raise("update_subtask_status")
                         /\ UNCHANGED <<subtasks, ci, completedNow>>
    /\ UNCHANGED <<build, prevComplete, tasks, flow, results, jira, world, task_id, si,
                   scanVars, stageVars, bi, to_close, decisions, atStart>>

\* the final check_and_complete_task_if_all_subtasks_done of analyze_testflow
FinalCheck ==
    /\ entry = "analyze"
    /\ pc = "check"
    /\ IF ~AllSubtasksComplete(get_task_subtasks)
       THEN End("in_analysis") /\ UNCHANGED to_close
       ELSE Goto("final_close") /\ to_close' = StaleKeys(get_task_subtasks)
    /\ UNCHANGED <<testray, jira, world, task_id, si, scanVars, stageVars, bi, ci, ghost>>

NextAnalyze ==
    \/ GetLatestDoneBuild
    \/ CreateTask
    \/ CreateTestflow
    \/ FindExistingTask
    \/ MaybeAutofill
    \/ BeginSubtask
    \/ ProcessSummaryResult
    \/ ResolveSubtaskFailures
    \/ ProcessReturn
    \/ ApplyBatchItem
    \/ CompleteStagedSubtask
    \/ FinalCheck
    \/ CloseNotReproduced
    \/ CompleteTaskIfAllDone

SpecAnalyze == InitAnalyze /\ [][NextAnalyze]_vars

\* ------------------------------------------------------------------------
\* Both flows
\* ------------------------------------------------------------------------
Next ==
    \/ GetLatestDoneBuild
    \/ CreateTask
    \/ CreateTestflow
    \/ MaybeAutofill
    \/ ProcessReturn
    \/ ApplyBatchItem
    \/ UseExistingTask
    \/ ScanSubtask
    \/ ResolveGroup
    \/ StageSubtask
    \/ CompleteSubtask
    \/ CheckAllComplete
    \/ CloseStaleIssue
    \/ CompleteTask
    \/ FindExistingTask
    \/ BeginSubtask
    \/ ProcessSummaryResult
    \/ ResolveSubtaskFailures
    \/ CompleteStagedSubtask
    \/ FinalCheck
    \/ CloseNotReproduced
    \/ CompleteTaskIfAllDone

Spec == Init /\ [][Next]_vars

\* ------------------------------------------------------------------------
\* The functions on their own: detect_flakiness, should_skip_result and
\* find_similar_open_issues applied to inputs of a bounded set
\* ------------------------------------------------------------------------
\* the entries a case history is made of (UNTESTED: a status that is
\* neither PASSED nor one of FAILED, TESTFIX, BLOCKED)
FlakyEntries == {HistoryEntry("PASSED", <<>>, <<>>), HistoryEntry("FAILED", TE9, <<>>),
                 HistoryEntry("BLOCKED", TF, <<>>), HistoryEntry("UNTESTED", <<>>, <<>>)}

SimilarEntries == {HistoryEntry("FAILED", TE9, <<7>>), HistoryEntry("FAILED", TF, <<7>>),
                   HistoryEntry("FAILED", TE9, <<8>>), HistoryEntry("BLOCKED", TE9, <<9, 7>>),
                   HistoryEntry("FAILED", TF, <<8, 9>>), HistoryEntry("FAILED", TE9, <<>>),
                   HistoryEntry("PASSED", <<>>, <<>>)}

Histories(entries, n) == UNION {[1..m -> entries] : m \in 0..n}

\* a long history: older entries after a run of newer PASSED ones
Padded(history, n) == [k \in 1..n |-> HistoryEntry("PASSED", <<>>, <<>>)] \o history

Paddings == {0, 5, MaxPadding}

\* error texts around the skip keywords and AssertionError
SkipTexts ==
    LET before == {<<>>, AssertionErrorText, <<"x", " ">>}
        middle == Range(skip_error_keywords)
                    \cup {<<>>, <<"S","k","i","p","p","e","d"," ","t","e","s">>,
                          <<"s","k","i","p","p","e","d"," ","t","e","s","t">>}
        after == {<<>>, AssertionErrorText, <<"!">>,
                  <<"a","s","s","e","r","t","i","o","n","e","r","r","o","r">>}
    IN  {b \o m \o a : b \in before, m \in middle, a \in after}

\* Execution dates.  A date string is a sequence of fields: "d1" < "d2" < "d3"
\* are texts the directive %Y-%m-%d accepts, "t" is a text %H:%M:%S accepts,
\* ".f" is a fraction of a second, " " is whitespace, "T" and "Z" are the
\* letters of ISO 8601 and any other field is text no directive accepts.
DayFields == <<"d1", "d2", "d3">>

DayOf(field) == CHOOSE d \in DOMAIN DayFields : DayFields[d] = field

\* str.strip()
RECURSIVE StripFields(_)
StripFields(s) ==
    IF s = <<>> THEN s
    ELSE IF Head(s) = " " THEN StripFields(Tail(s))
         ELSE IF s[Len(s)] = " " THEN StripFields(SubSeq(s, 1, Len(s) - 1))
              ELSE s

\* datetime.strptime with "%Y-%m-%d %H:%M:%S.%f" (with_fraction) or
\* "%Y-%m-%d %H:%M:%S": <<>> for ValueError, else <<datetime>>, a datetime
\* being the number of half seconds since day 0.  The blank of the format
\* matches one or more whitespace fields and nothing may remain unconverted.
strptime(date_str, with_fraction) ==
    LET tail == IF with_fraction THEN 2 ELSE 1
        n == Len(date_str)
    IN  IF /\ n >= 2 + tail
           /\ date_str[1] \in Range(DayFields)
           /\ \A k \in 2..(n - tail) : date_str[k] = " "
           /\ date_str[n - tail + 1] = "t"
           /\ with_fraction => date_str[n] = ".f"
        THEN <<2 * DayOf(date_str[1]) + (IF with_fraction THEN 1 ELSE 0)>>
        ELSE <<>>

\* <<>> stands for None
parse_execution_date(date_str) ==
    LET stripped == StripFields(date_str)
        no_z == IF stripped # <<>> /\ stripped[Len(stripped)] = "Z"
                THEN SubSeq(stripped, 1, Len(stripped) - 1) ELSE stripped
        spaced == [k \in DOMAIN no_z |-> IF no_z[k] = "T" THEN " " ELSE no_z[k]]
    IN  IF strptime(spaced, TRUE) # <<>> THEN strptime(spaced, TRUE)
        ELSE strptime(spaced, FALSE)

\* an entry of a history with its execution date: <<>> when the key is
\* missing, <<date_str>> otherwise
DatedEntry(status, executionDate) == [status |-> status, executionDate |-> executionDate]

\* the loop of get_last_passing_result from entry k on: last_passing is <<>>
\* (None) or <<item>>, and last_date is the parsed date of that item.
\* Comparing a datetime with a None cutoff raises TypeError.
RECURSIVE LastPassingFrom(_, _, _, _)
LastPassingFrom(entire_history, k, max_execution_date, last_passing) ==
    IF k > Len(entire_history) THEN [raised |-> "none", item |-> last_passing]
    ELSE LET item == entire_history[k]
             execution_date == IF item.executionDate = <<>> THEN <<>>
                               ELSE parse_execution_date(item.executionDate[1])
             last_date == IF last_passing = <<>> THEN <<>>
                          ELSE parse_execution_date(last_passing[1].executionDate[1])
         IN  IF item.status # "PASSED" \/ item.executionDate \in {<<>>, << <<>> >>}
                \/ execution_date = <<>>
             THEN LastPassingFrom(entire_history, k + 1, max_execution_date, last_passing)
             ELSE IF max_execution_date = <<>>
                  THEN [raised |-> "TypeError", item |-> <<>>]
                  ELSE IF execution_date[1] >= max_execution_date[1]
                       THEN LastPassingFrom(entire_history, k + 1,
                                            max_execution_date, last_passing)
                       ELSE IF last_date = <<>> \/ execution_date[1] > last_date[1]
                            THEN LastPassingFrom(entire_history, k + 1,
                                                 max_execution_date, <<item>>)
                            ELSE LastPassingFrom(entire_history, k + 1,
                                                 max_execution_date, last_passing)

\* max_execution_date is <<>> for None and <<date_str>> for a string, as
\* .get('executionDate') of the entry of the build gives it
get_last_passing_result(entire_history, max_execution_date) ==
    IF max_execution_date # <<>> /\ parse_execution_date(max_execution_date[1]) = <<>>
    THEN [raised |-> "none", item |-> <<>>]
    ELSE LastPassingFrom(entire_history, 1,
                         IF max_execution_date = <<>> THEN <<>>
                         ELSE parse_execution_date(max_execution_date[1]),
                         <<>>)

\* date strings: ISO 8601 with Z, padded with a fraction, without Z, with
\* whitespace before the Z, a day alone, and the empty string
ExecutionDates ==
    {<<"d1", "T", "t", "Z">>, <<"d2", "T", "t", "Z">>,
     <<" ", "d2", " ", " ", "t", ".f", " ">>, <<"d3", "T", "t">>,
     <<"d2", "T", "t", " ", "Z">>, <<"d3">>, <<>>}

DatedEntries ==
    {DatedEntry("PASSED", <<>>)}
    \cup {DatedEntry("PASSED", <<d>>) : d \in ExecutionDates}
    \cup {DatedEntry("FAILED", <<d>>) : d \in {<<"d1", "T", "t", "Z">>}}

\* the execution date of the first entry of the build, as the callers pass it
CutoffDates ==
    {<<>>, << <<"d2", "T", "t", "Z">> >>, << <<"d3", "T", "t">> >>,
     << <<" ", "d2", " ", " ", "t", ".f", " ">> >>, << <<"d3">> >>}

\* error texts for normalize_error: every text of up to MaxErrorLen
\* characters over digits, a letter of an address, a unit, whitespace and a
\* quote, a text with a timestamp, and null
NormalizeAlphabet == {"0", "1", "x", "s", " ", "\""}

RECURSIVE TextsUpTo(_)
TextsUpTo(n) ==
    IF n = 0 THEN {<<>>}
    ELSE TextsUpTo(n - 1)
            \cup {Append(t, c) : t \in TextsUpTo(n - 1), c \in NormalizeAlphabet}

NormalizeTexts ==
    TextsUpTo(MaxErrorLen)
    \cup {<<"a", " ", "2","0","2","4","-","0","1","-","0","2","T",
            "1","0",":","0","0",":","0","0", " ", "b">>}

Applications ==
    {[fn |-> "detect_flakiness", history |-> Padded(h, n), error |-> TE5] :
        h \in Histories(FlakyEntries, MaxHistory), n \in Paddings}
    \cup {[fn |-> "find_similar_open_issues", history |-> h, error |-> TE5] :
        h \in Histories(SimilarEntries, MaxSimilarHistory)}
    \cup {[fn |-> "should_skip_result", error |-> t] : t \in SkipTexts}
    \cup {[fn |-> "get_last_passing_result", history |-> h, cutoff |-> c] :
        h \in Histories(DatedEntries, MaxDatedHistory), c \in CutoffDates}
    \cup {[fn |-> "normalize_error", error |-> t, null |-> FALSE] : t \in NormalizeTexts}
    \cup {[fn |-> "normalize_error", error |-> <<>>, null |-> TRUE]}

InitUnit ==
    /\ entry = "unit"
    /\ applied \in Applications /\ returned = <<>>
    /\ build = "RUNNING" /\ tasks = <<>> /\ flow = FALSE /\ prevComplete = FALSE
    /\ subtasks = <<>> /\ results = <<>> /\ subtask_to_issues = <<>>
    /\ simPairs \in Oracles
    /\ jira = InitialJira
    /\ pc = "idle" /\ outcome = "none" /\ failedAt = "none" /\ runs = 0 /\ failures = 0
    /\ task_id = 0 /\ si = 0
    /\ unique_failures = <<>> /\ first_result_skipped = FALSE
    /\ groups = <<>> /\ resolved_all_groups = TRUE
    /\ ri = 0 /\ all_results_in_subtask_handled = TRUE
    /\ batch_updates = <<>> /\ subtasks_to_complete = <<>>
    /\ bi = 0 /\ ci = 0 /\ to_close = {}
    /\ calls = {} /\ completedNow = {} /\ decisions = <<>>
    /\ jiraAtStart = DOMAIN InitialJira
    /\ completeAtStart = {}

Returns(value) ==
    /\ returned' = <<value>>
    /\ UNCHANGED <<testray, jira, simPairs, entry, applied, control, task_id, si,
                   scanVars, stageVars, finVars, ghost>>

ApplyDetectFlakiness ==
    /\ entry = "unit" /\ returned = <<>>
    /\ applied.fn = "detect_flakiness"
    /\ Returns(FlakinessOf(applied.history, normalize_error(applied.error)))

ApplyFindSimilarOpenIssues ==
    /\ entry = "unit" /\ returned = <<>>
    /\ applied.fn = "find_similar_open_issues"
    /\ Returns(SimilarIn(applied.history, applied.error))

ApplyShouldSkipResult ==
    /\ entry = "unit" /\ returned = <<>>
    /\ applied.fn = "should_skip_result"
    /\ Returns(should_skip_result(applied.error))

ApplyGetLastPassingResult ==
    /\ entry = "unit" /\ returned = <<>>
    /\ applied.fn = "get_last_passing_result"
    /\ Returns(get_last_passing_result(applied.history, applied.cutoff))

ApplyNormalizeError ==
    /\ entry = "unit" /\ returned = <<>>
    /\ applied.fn = "normalize_error"
    /\ Returns(normalize_error(IF applied.null THEN None ELSE applied.error))

NextUnit ==
    \/ ApplyDetectFlakiness
    \/ ApplyFindSimilarOpenIssues
    \/ ApplyShouldSkipResult
    \/ ApplyGetLastPassingResult
    \/ ApplyNormalizeError

SpecUnit == InitUnit /\ [][NextUnit]_vars

\* ------------------------------------------------------------------------
\* Properties of the pipeline
\* ------------------------------------------------------------------------
ResultAt(id) == results[id[1]][id[2]]

\* a result the engine has to resolve: no issue yet and not known noise
Pending(r) == r.issues = <<>> /\ ~Skip(OrEmpty(r.errors))

\* C1: whenever the engine sets a subtask to COMPLETE (any call of
\* update_subtask_status, the one made during scanning included), every
\* case result of that subtask is skippable, already carries issues, or has
\* been given an issue by a batch update of this pass
C1_CompleteOnlyWhenAllHandled ==
    \A s \in completedNow : \A k \in DOMAIN results[s] :
        \/ ~Pending(results[s][k])
        \/ \E i \in DOMAIN batch_updates : batch_updates[i].id = <<s, k>>

\* C2: complete_task is called only when every subtask of the freshly
\* fetched list is COMPLETE; with a subtask that is not COMPLETE the run
\* closes no issue, leaves the task in analysis and ends without error
C2_CompleteTaskOnlyWhenAllComplete ==
    /\ ("complete_task" \in calls \/ "close_issue" \in calls
          \/ pc \in {"close", "find_close", "final_close"})
           => \A k \in DOMAIN get_task_subtasks : get_task_subtasks[k].status = "COMPLETE"
    /\ (pc = "end" /\ outcome \in {"in_analysis", "task_completed"}
          /\ \E k \in DOMAIN get_task_subtasks : get_task_subtasks[k].status # "COMPLETE")
           => /\ outcome = "in_analysis" /\ failedAt = "none"
              /\ tasks[task_id] = "INANALYSIS"
              /\ "close_issue" \notin calls /\ "complete_task" \notin calls

\* a task of two subtasks was completed by the run
C2_Witness ==
    /\ pc = "end" /\ outcome = "task_completed"
    /\ Len(get_task_subtasks) >= 2
    /\ completedNow # {}

\* C3: over runs that may fail at an external call made after an issue was
\* created, at most one investigation issue is ever created for the same
\* failure group (same subtask, same normalized error)
C3_OneIssuePerFailureGroup ==
    \A k1, k2 \in DOMAIN jira :
        (/\ jira[k1].subtask # 0 /\ "test_fix" \notin jira[k1].labels
         /\ "test_fix" \notin jira[k2].labels
         /\ jira[k1].subtask = jira[k2].subtask
         /\ jira[k1].error = jira[k2].error) => k1 = k2

DecisionsOf(s) == {i \in DOMAIN decisions : decisions[i].subtask = s}

\* the normalized errors of the results of subtask s that are pending
PendingKeys(s) ==
    {Norm(OrEmpty(results[s][k].errors)) :
        k \in {j \in DOMAIN results[s] : Pending(results[s][j])}}

\* C4: the pending failures of a subtask are partitioned by normalize_error;
\* one find-or-create decision (at most one issue creation) is made per
\* distinct normalized error, and the results of one group all receive the
\* decision's issue key
C4_OneDecisionPerNormalizedError ==
    /\ \A i, j \in DOMAIN decisions :
          (decisions[i].subtask = decisions[j].subtask
             /\ decisions[i].key = decisions[j].key) => i = j
    /\ \A i, j \in DOMAIN decisions :
          (decisions[i].created /\ decisions[j].created
             /\ decisions[i].issues = decisions[j].issues) => i = j
    /\ Cardinality(DOMAIN jira \ jiraAtStart)
          = Cardinality({i \in DOMAIN decisions : decisions[i].created})
    /\ \A u \in DOMAIN batch_updates :
          \E i \in DOMAIN decisions :
              /\ batch_updates[u].id \in decisions[i].results
              /\ batch_updates[u].issues = decisions[i].issues
    /\ pc \in {"process", "resolve"} =>
          \A i \in DOMAIN decisions :
              LET s == decisions[i].subtask
              IN  decisions[i].results =
                      {<<s, k>> : k \in {j \in DOMAIN results[s] :
                          /\ Pending(results[s][j])
                          /\ Norm(OrEmpty(results[s][j].errors)) = decisions[i].key}}
    /\ pc = "process" =>
          \A s \in 1..(si - 1) :
              (s \in DOMAIN results /\ decisions # <<>> /\ DecisionsOf(s) # {})
                  => {decisions[i].key : i \in DecisionsOf(s)} = PendingKeys(s)

\* two results with different raw texts and one normalized error were
\* resolved by one decision, next to a decision for another error
C4_Witness ==
    \E i, j \in DOMAIN decisions :
        /\ decisions[i].subtask = decisions[j].subtask /\ i # j
        /\ \E a, b \in decisions[i].results :
              a # b /\ ResultAt(a).errors # ResultAt(b).errors

\* the batch updates not yet applied
Unapplied == {i \in DOMAIN batch_updates : i >= bi}

\* C6: no batch update is emitted for a case result whose issues were
\* non-empty when it was fetched, and a populated issues field of a case
\* result is never changed
C6_IssuedResultsUntouched ==
    /\ [](\A i \in Unapplied : ResultAt(batch_updates[i].id).issues = <<>>)
    /\ [][\A s \in DOMAIN results : \A k \in DOMAIN results[s] :
            results[s][k].issues # <<>> => results'[s][k] = results[s][k]]_vars

\* a subtask with an issued result was processed: the pending result next
\* to it was updated, the issued one kept its key
C6_Witness ==
    \E s \in DOMAIN results :
        /\ \E k \in DOMAIN results[s] : results[s][k].issues = <<7>>
        /\ \E i \in DOMAIN batch_updates : i < bi /\ batch_updates[i].id[1] = s
        /\ subtasks[s].status = "OPEN"

\* C7: every write of a subtask's issues by the engine stores a superset of
\* the keys the subtask held before the write
C7_SubtaskIssuesNeverDropped ==
    [][\A s \in DOMAIN subtasks :
          Range(subtasks[s].issues) \subseteq Range(subtasks'[s].issues)]_vars

\* C8: applying the batched case-result updates is all-or-nothing: when the
\* call fails no case result of the batch has been updated and no subtask
\* is completed afterwards in the run
C8_BatchAllOrNothing ==
    (pc = "end" /\ failedAt = "assign_issue_to_case_result") =>
        /\ \A i \in DOMAIN batch_updates :
              ResultAt(batch_updates[i].id).issues = <<>>
        /\ ci = 1

\* C9: when issue creation raises for a failure group, no result of the
\* group has received issues or a status change and the group's subtask is
\* not COMPLETE, so that the next run processes the group again
C9_CreationFailureNotMasked ==
    (pc = "end" /\ failedAt = "create_jira_task") =>
        /\ \A k \in DOMAIN Head(groups).members :
              LET r == ResultAt(Head(groups).members[k].result_id)
              IN  r.issues = <<>> /\ r.status = "FAILED"
        /\ subtasks[si].status # "COMPLETE"

\* C5: when analyze_testflow is run twice and nothing outside the engine
\* changes the external state, the second run makes no mutating external
\* call
C5_SecondRunMakesNoCall ==
    (entry = "analyze" /\ runs = 2 /\ failures = 0) => calls = {}

\* C10: a run that stops at a top-level checkpoint (the latest build is not
\* DONE, the task is ABANDONED, the task is already COMPLETE) has made no
\* mutating external call
C10_CheckpointStopMakesNoCall ==
    (pc = "end" /\ outcome \in {"build_not_done", "abandoned", "already_complete"})
        => calls = {}

\* ------------------------------------------------------------------------
\* Properties of task creation, flakiness, skipping and issue reuse
\* ------------------------------------------------------------------------
NonAbandonedTasks == {k \in DOMAIN tasks : tasks[k] # "ABANDONED"}

\* C11: over any sequence of runs create_task is called only when the build
\* has no task at all, so a build that starts with at most one
\* non-abandoned task never has more than one
C11_CreateTaskOnlyWithoutTask ==
    /\ [](Cardinality(NonAbandonedTasks) <= 1)
    /\ [][("create_task" \in calls' /\ "create_task" \notin calls)
            => get_build_tasks = <<>>]_vars
    /\ [][Len(tasks') > Len(tasks) => tasks = <<>>]_vars

\* a run found no task for the build, created one and works on it
C11_Witness ==
    /\ "create_task" \in calls /\ "create_testflow" \in calls
    /\ tasks = <<"INANALYSIS">> /\ task_id = 1
    /\ pc = "end" /\ outcome = "in_analysis"

\* pass_count + fail_count of detect_flakiness over the history of a case
HistoryTotal(case_id) ==
    LET history == get_case_result_history_for_routine(case_id)
    IN  Cardinality({k \in DOMAIN history :
                        history[k].status \in {"PASSED", "FAILED", "BLOCKED", "TESTFIX"}})

\* C12: for a case whose history has fewer than 5 PASSED plus non-passed
\* entries (an empty history included), process_summary_result never takes
\* the flaky path: no TESTFIX update and no test-fix issue for that result
C12_NoFlakyPathBelowFiveEntries ==
    /\ \A i \in DOMAIN batch_updates :
          batch_updates[i].dueStatus = "TESTFIX"
              => HistoryTotal(ResultAt(batch_updates[i].id).case) >= 5
    /\ \A key \in DOMAIN jira :
          "test_fix" \in jira[key].labels
              => \E k \in DOMAIN results[jira[key].subtask] :
                    /\ Norm(results[jira[key].subtask][k].errors) = jira[key].error
                    /\ HistoryTotal(results[jira[key].subtask][k].case) >= 5

\* the failing entries of a history (FAILED, TESTFIX or BLOCKED)
FailingEntries(history) ==
    {k \in DOMAIN history : history[k].status \in {"FAILED", "TESTFIX", "BLOCKED"}}

PassedEntries(history) == {k \in DOMAIN history : history[k].status = "PASSED"}

\* C13: for a history of at least 5 entries without a FAILED, BLOCKED or
\* TESTFIX entry detect_flakiness returns false and raises no error
C13_NoFailuresReturnsFalse ==
    (/\ applied.fn = "detect_flakiness" /\ returned # <<>>
     /\ Len(applied.history) >= 5
     /\ FailingEntries(applied.history) = {})
        => returned[1] = "False"

\* the adjacent entries of a history whose status differs
StatusSwitches(history) ==
    {k \in 2..Len(history) : history[k - 1].status # history[k].status}

\* the failing entries whose normalized error is similar to the current one
SimilarFailures(history, error) ==
    {k \in FailingEntries(history) :
        are_errors_similar(normalize_error(error), normalize_error(history[k].error))}

\* C14: with total = pass_count + fail_count >= 5 and fail_count >= 1,
\* detect_flakiness returns true exactly when switch_count / (total - 1) >
\* 0.12 and 0.05 < fail_count / total < 0.75 and similar_error_failures /
\* fail_count >= 0.9 (and false otherwise)
C14_FlakyExactlyOnThresholds ==
    (applied.fn = "detect_flakiness" /\ returned # <<>>) =>
        LET history == applied.history
            fail_count == Cardinality(FailingEntries(history))
            total == Cardinality(PassedEntries(history)) + fail_count
            switch_count == Cardinality(StatusSwitches(history))
            similar_error_failures == Cardinality(SimilarFailures(history, applied.error))
        IN  (total >= 5 /\ fail_count >= 1) =>
                /\ returned[1] \in {"True", "False"}
                /\ returned[1] = "True" <=>
                      /\ 100 * switch_count > 12 * (total - 1)
                      /\ 5 * total < 100 * fail_count
                      /\ 100 * fail_count < 75 * total
                      /\ 10 * similar_error_failures >= 9 * fail_count

\* a flaky history of ten or more counted entries was classified
C14_Witness ==
    /\ applied.fn = "detect_flakiness" /\ returned = <<"True">>
    /\ Cardinality(PassedEntries(applied.history)) >= 9
    /\ Cardinality(FailingEntries(applied.history)) >= 2

ModuleIntegrationCase(case_id) == CaseTypes[case_id] = "Modules Integration Test"

\* C15: in process_summary_result a result whose case type is Modules
\* Integration Test is never classified flaky, whatever its history: no
\* TESTFIX update, no test-fix issue, and it is reported as a unique failure
C15_ModuleIntegrationNeverFlaky ==
    /\ \A i \in DOMAIN batch_updates :
          ModuleIntegrationCase(ResultAt(batch_updates[i].id).case)
              => batch_updates[i].dueStatus # "TESTFIX"
    /\ \A key \in DOMAIN jira :
          "test_fix" \in jira[key].labels
              => \E k \in DOMAIN results[jira[key].subtask] :
                    /\ Norm(results[jira[key].subtask][k].errors) = jira[key].error
                    /\ ~ModuleIntegrationCase(results[jira[key].subtask][k].case)
    /\ pc = "summary" =>
          \A k \in 1..(ri - 1) :
              (ModuleIntegrationCase(results[si][k].case) /\ Pending(results[si][k]))
                  => \E f \in DOMAIN unique_failures :
                        unique_failures[f].result_id = <<si, k>>

\* a Modules Integration Test result whose history meets the flaky
\* thresholds was reported as a unique failure
C15_Witness ==
    /\ pc = "summary"
    /\ \E f \in DOMAIN unique_failures :
          /\ ModuleIntegrationCase(unique_failures[f].case_id)
          /\ detect_flakiness(unique_failures[f].case_id,
                              Norm(unique_failures[f].error)) = "True"

HasDenylistPhrase(error) == \E w \in Range(skip_error_keywords) : Contains(error, w)

\* C16: should_skip_result(error) is true exactly when the error text
\* contains at least one of the seven denylist substrings and does not
\* contain AssertionError; an error containing AssertionError is never
\* skipped, even if it also contains a denylist phrase
C16_SkipExactlyOnDenylistWithoutAssertion ==
    /\ Cardinality(Range(skip_error_keywords)) = 7
    /\ (applied.fn = "should_skip_result" /\ returned # <<>>) =>
          /\ returned[1] = (/\ HasDenylistPhrase(applied.error)
                            /\ ~Contains(applied.error, AssertionErrorText))
          /\ Contains(applied.error, AssertionErrorText) => returned[1] = FALSE

\* a text with a denylist phrase and AssertionError was not skipped
C16_Witness ==
    /\ applied.fn = "should_skip_result" /\ returned = <<FALSE>>
    /\ Contains(applied.error, TSkipped)
    /\ Contains(applied.error, AssertionErrorText)

\* C17: when the first case result scanned in a subtask is skippable the
\* subtask is marked COMPLETE at once and nothing more is resolved for it
\* in this pass: no similar-issue lookup, no issue creation and no batch
\* update for any other result of that subtask
C17_ShortCircuitStopsResolution ==
    /\ (pc = "resolve" /\ first_result_skipped)
          => si \in completedNow /\ subtasks[si].status = "COMPLETE"
    /\ \A i \in DOMAIN batch_updates :
          ~FirstResultSkipped(results[batch_updates[i].id[1]])
    /\ \A i \in DOMAIN decisions :
          ~FirstResultSkipped(results[decisions[i].subtask])

\* a not-passed history entry that carries an issue whose tracker status is
\* not Closed and whose error is similar to the current one
Qualifies(entry_of_history, error) ==
    /\ entry_of_history.status \in {"FAILED", "TESTFIX", "BLOCKED"}
    /\ \E key \in Range(entry_of_history.issues) :
          key \in DOMAIN jira /\ jira[key].status # "Closed"
    /\ are_errors_similar(normalize_error(error), normalize_error(entry_of_history.error))

\* C18: find_similar_open_issues reports found = true exactly when some
\* not-passed history entry carries an issue that is not Closed and has an
\* error similar to the current one; the issues returned come from the most
\* recent such entry
C18_FoundExactlyWhenOpenSimilarEntry ==
    (applied.fn = "find_similar_open_issues" /\ returned # <<>>) =>
        LET history == applied.history
            hits == {k \in DOMAIN history : Qualifies(history[k], applied.error)}
        IN  /\ (returned[1] # <<>>) <=> (hits # {})
            /\ returned[1] # <<>> =>
                  LET first == CHOOSE k \in hits : \A j \in hits : k <= j
                  IN  Range(returned[1]) \subseteq Range(history[first].issues)

SubtaskIssueKeys == UNION {Range(subtasks[s].issues) : s \in DOMAIN subtasks}

\* C20: at task completion the issues closed are exactly the open routine
\* issues of the tracker query minus the keys on the subtasks' issues
\* fields: no issue a subtask refers to is closed, and complete_task is
\* called only after every closure has returned
C20_ClosesExactlyStaleThenCompletes ==
    /\ [][\A key \in DOMAIN jira :
            (jira[key].status # "Closed" /\ jira'[key].status = "Closed")
                => /\ key \in OpenRoutineKeys
                   /\ key \notin SubtaskIssueKeys
                   /\ "complete_task" \notin calls]_vars
    /\ [][("complete_task" \in calls' /\ "complete_task" \notin calls)
            => OpenRoutineKeys \ SubtaskIssueKeys = {}]_vars

\* a task was completed after two stale issues were closed while an open
\* routine issue on a subtask was kept
C20_Witness ==
    /\ pc = "end" /\ outcome = "task_completed"
    /\ Cardinality({key \in DOMAIN jira :
                       jira[key].status = "Closed" /\ key # 8}) >= 2
    /\ \E key \in SubtaskIssueKeys :
          jira[key].status = "Open" /\ "hl_routine_tasks" \in jira[key].labels

\* ------------------------------------------------------------------------
\* Properties of backfill, the flaky path and whole runs
\* ------------------------------------------------------------------------
ResultIssueKeys(s) == UNION {Range(results[s][k].issues) : k \in DOMAIN results[s]}

\* the subtask loop of the run is over
SubtasksIterated == pc \in {"apply", "complete", "check", "close", "final_close"}

ClassifiedFlaky(r) ==
    /\ Pending(r) /\ r.errors # None
    /\ ~ModuleIntegrationCase(r.case)
    /\ detect_flakiness(r.case, Norm(r.errors))
          \in {"True", "(False, 'no_history')", "(False, 'insufficient_data')"}

OneReuseOneNewScenario ==
    /\ entry = "pipeline" /\ runs = 1 /\ "create_task" \in calls
    /\ Len(subtasks) = 1 /\ Len(results[1]) = 2
    /\ results[1][1].case = 5 /\ results[1][2].case = 4

\* C23: end to end (prepare_task, process_task_subtasks,
\* finalize_task_completion) on a DONE build without task whose new task has
\* one subtask with two results, the first matching a history entry with an
\* open issue and the second matching nothing, one run leaves result 1
\* BLOCKED with that issue, result 2 BLOCKED with one newly created issue,
\* the subtask COMPLETE with exactly those two keys and the task COMPLETE
C23_OneRunResolvesAndCompletes ==
    (OneReuseOneNewScenario /\ pc = "end" /\ failures = 0) =>
        LET created == DOMAIN jira \ DOMAIN InitialJira
        IN  /\ outcome = "task_completed"
            /\ results[1][1].status = "BLOCKED" /\ results[1][1].issues = <<7>>
            /\ Cardinality(created) = 1
            /\ \A key \in created :
                  /\ results[1][2].status = "BLOCKED" /\ results[1][2].issues = <<key>>
                  /\ Range(subtasks[1].issues) = {7, key}
                  /\ Len(subtasks[1].issues) = 2
            /\ subtasks[1].status = "COMPLETE"
            /\ tasks = <<"COMPLETE">>

\* the run of the scenario has ended without a failing call
C23_Witness ==
    /\ OneReuseOneNewScenario /\ pc = "end" /\ failures = 0
    /\ "complete_task" \in calls /\ jira[7].status = "Open"

\* the PASSED entries of a history whose execution date parses to a date
\* strictly before the cutoff; none when the cutoff is missing or unparsable
PassedBefore(history, cutoff) ==
    IF cutoff = <<>> \/ parse_execution_date(cutoff[1]) = <<>> THEN {}
    ELSE {k \in DOMAIN history :
            /\ history[k].status = "PASSED"
            /\ history[k].executionDate # <<>>
            /\ parse_execution_date(history[k].executionDate[1]) # <<>>
            /\ parse_execution_date(history[k].executionDate[1])[1]
                  < parse_execution_date(cutoff[1])[1]}

\* C24: get_last_passing_result(history, cutoff) raises no error and
\* returns the PASSED entry with the greatest execution date strictly
\* before the cutoff, None when there is none; entries without a date or
\* with an unparsable one are skipped
C24_LastPassingBeforeCutoff ==
    (applied.fn = "get_last_passing_result" /\ returned # <<>>) =>
        LET before == PassedBefore(applied.history, applied.cutoff)
        IN  /\ returned[1].raised = "none"
            /\ before = {} => returned[1].item = <<>>
            /\ before # {} =>
                  \E k \in before :
                      /\ returned[1].item = <<applied.history[k]>>
                      /\ \A j \in before :
                            parse_execution_date(applied.history[j].executionDate[1])[1]
                              <= parse_execution_date(applied.history[k].executionDate[1])[1]

\* C25: normalize_error never fails, maps null and empty input to the
\* empty string, and returns its own output unchanged:
\* normalize_error(normalize_error(x)) = normalize_error(x) for every x
C25_NormalizeIdempotent ==
    (applied.fn = "normalize_error" /\ returned # <<>>) =>
        /\ (applied.null \/ applied.error = <<>>) => returned[1] = <<>>
        /\ normalize_error(returned[1]) = returned[1]

\* C26: in analyze_testflow the issue found or created for the unique
\* failures of a subtask is assigned only to the failures whose normalized
\* error equals that of the failure the similar-issue lookup was made with;
\* a unique failure with another normalized error has a decision of its own
C26_IssueOnlyForProbeError ==
    entry = "analyze" =>
        \A i \in DOMAIN decisions : \A u \in DOMAIN batch_updates :
            (/\ batch_updates[u].id \in decisions[i].results
             /\ batch_updates[u].dueStatus = "BLOCKED")
                => Norm(OrEmpty(ResultAt(batch_updates[u].id).errors)) = decisions[i].key

\* C27: in analyze_testflow an issue key that a batch update of this run
\* assigns to a case result (the keys reused for a flaky result included)
\* is among the issues of the result's subtask once the run has completed
\* that subtask, and is not closed as not reproduced by the task completion
\* of the same run
C27_AssignedKeysRecordedAndKept ==
    entry = "analyze" =>
        \A u \in DOMAIN batch_updates : \A key \in Range(batch_updates[u].issues) :
            /\ batch_updates[u].id[1] \in completedNow
                  => key \in Range(subtasks[batch_updates[u].id[1]].issues)
            /\ jira[key].status = "Open"

\* C28: a task whose subtask list is empty is not marked COMPLETE and
\* triggers no issue closure: no step with an empty subtask list calls
\* close_issue or complete_task
C28_NoCompletionWithoutSubtasks ==
    [][get_task_subtasks = <<>> =>
          /\ \A t \in DOMAIN tasks' :
                tasks'[t] = "COMPLETE" => (t \in DOMAIN tasks /\ tasks[t] = "COMPLETE")
          /\ \A key \in DOMAIN jira : jira'[key].status = jira[key].status
          /\ "complete_task" \notin calls' \ calls
          /\ "close_issue" \notin calls' \ calls]_vars

\* C29: within one run batch_updates holds at most one update per case
\* result id, in analyze_testflow and in process_task_subtasks alike, so
\* no case result is given two status or issues values in one pass
C29_OneUpdatePerResult ==
    \A i, j \in DOMAIN batch_updates :
        batch_updates[i].id = batch_updates[j].id => i = j

\* a run has accumulated updates for three results of one subtask, resolved
\* by two decisions
C29_Witness ==
    /\ Len(batch_updates) = 3
    /\ \A i \in DOMAIN batch_updates : batch_updates[i].id[1] = 1
    /\ Cardinality({batch_updates[i].issues : i \in DOMAIN batch_updates}) = 2
    /\ pc = "end"

\* C30: a case result whose error text is null is processed without
\* raising: _scan_unique_failures takes it as a unique failure with the
\* empty error, and process_summary_result, also on the first result of a
\* subtask, does not skip it and classifies it as flaky or as a unique
\* failure like any other unhandled result (only a failing external call
\* may stop the step)
C30_NullErrorProcessed ==
    [][/\ _scan_unique_failures(1, <<Result(3, None, <<>>, "FAILED")>>)
            = <<[error |-> <<>>, case_id |-> 3, result_id |-> <<1, 1>>]>>
       /\ (/\ pc = "summary" /\ ri <= Len(get_subtask_case_results(si))
           /\ get_subtask_case_results(si)[ri].errors = None
           /\ get_subtask_case_results(si)[ri].issues = <<>>)
            => \/ pc' = "end" /\ failedAt' = "create_jira_task"
               \/ /\ pc' = "summary" /\ ri' = ri + 1
                  /\ \/ Len(unique_failures') = Len(unique_failures) + 1
                     \/ Len(batch_updates') = Len(batch_updates) + 1]_vars

=============================================================================
